---- MODULE Spec2Model ----
(***************************************************************************)
(* connector.py: one authenticated client, one code search, one loop over  *)
(* the matches that loads each file as JSON and prints a four-line report. *)
(*                                                                         *)
(* Text that the script transforms (the search term) is a sequence of      *)
(* Unicode code points; text that it only copies (names, paths, URLs,      *)
(* version strings) is a TLA+ string.                                      *)
(***************************************************************************)
EXTENDS Integers, Sequences, FiniteSets, TLC

VARIABLES
    pc,                 \* position of the script: the statement to run next
    g,                  \* line 6: the client handle, "none" before construction
    query,              \* line 9: the free-text term
    encoded_query,      \* line 10
    qualifiers,         \* lines 12-15
    calls,              \* the search requests built by g.search_code, in order
    remote,             \* the matches the service holds for the search
    results,            \* line 18: the lazy paginated list: elements fetched, whether
                        \* a next page exists, pages requested so far
    idx,                \* line 21: number of records yielded so far
    decoded_content,    \* line 22: result.decoded_content of the current record
    angular_js_version, \* line 22
    out,                \* standard output, one element per printed line
    err,                \* the exception that reached the process boundary
    exitCode            \* process exit status, -1 while running

vars == <<pc, g, query, encoded_query, qualifiers, calls, remote, results, idx,
          decoded_content, angular_js_version, out, err, exitCode>>

----------------------------------------------------------------------------
(* Bounds of the model.                                                    *)

MaxLen == 3

MaxRecords == 3

PerPage == 2

----------------------------------------------------------------------------
(* urllib.parse.quote(string), default arguments: safe='/', UTF-8, strict. *)

Letters == (65..90) \cup (97..122)

Digits == 48..57

\* _ALWAYS_SAFE: letters, digits and "_.-~"
AlwaysSafe == Letters \cup Digits \cup {95, 46, 45, 126}

\* a safe set that also lets the query delimiters '&' and '+' through
SafeWithDelimiters == {47, 38, 43}

\* the default value of the safe parameter, '/'
DefaultSafe == {47}

\* '%{:02X}' digit
Hex(n) == IF n < 10 THEN 48 + n ELSE 55 + n

\* str.encode('utf-8') of one code point
EncodeChar(cp) ==
    IF cp < 128 THEN <<cp>>
    ELSE IF cp < 2048 THEN <<192 + (cp \div 64), 128 + (cp % 64)>>
    ELSE IF cp < 65536
         THEN <<224 + (cp \div 4096), 128 + ((cp \div 64) % 64), 128 + (cp % 64)>>
    ELSE <<240 + (cp \div 262144), 128 + ((cp \div 4096) % 64),
           128 + ((cp \div 64) % 64), 128 + (cp % 64)>>

RECURSIVE Encode(_)
Encode(string) ==
    IF string = <<>> THEN <<>>
    ELSE EncodeChar(Head(string)) \o Encode(Tail(string))

\* a quoter that lets the escape character '%' through
QuoteByteKeepingPercent(b, safe) ==
    IF b \in (AlwaysSafe \cup safe) \cup {37} THEN <<b>>
    ELSE <<37, Hex(b \div 16), Hex(b % 16)>>

\* the quoter of one byte
QuoteByte(b, safe) ==
    IF b \in AlwaysSafe \cup safe THEN <<b>>
    ELSE <<37, Hex(b \div 16), Hex(b % 16)>>

RECURSIVE quote_from_bytes(_, _)
quote_from_bytes(bs, safe) ==
    IF bs = <<>> THEN <<>>
    ELSE QuoteByte(Head(bs), safe) \o quote_from_bytes(Tail(bs), safe)

quote(string) ==
    IF string = <<>> THEN string
    ELSE quote_from_bytes(Encode(string), DefaultSafe)

----------------------------------------------------------------------------
(* The free-text term of line 9.  The script binds the literal 'angular';  *)
(* the term is the parameter of the query builder, so Init draws it from a *)
(* set that holds the literal.                                             *)

\* 'angular'
Angular == <<97, 110, 103, 117, 108, 97, 114>>

\* 'a b/c' : a term whose encoding differs from the term
SpacedTerm == <<97, 32, 98, 47, 99>>

Queries == {Angular, SpacedTerm}

\* a Z 7 space / ? & % ~ + e-acute euro-sign U+1F600
Alphabet == {97, 90, 55, 32, 47, 63, 38, 37, 126, 43, 233, 8364, 128512}

RECURSIVE SeqsUpTo(_, _)
SeqsUpTo(S, n) ==
    IF n = 0 THEN {<<>>}
    ELSE LET shorter == SeqsUpTo(S, n - 1)
         IN  shorter \cup {Append(s, x) : s \in shorter, x \in S}

BoundedTerms == SeqsUpTo(Alphabet, MaxLen)

----------------------------------------------------------------------------
(* Match records.  decoded_content is represented by what json.loads makes *)
(* of it: bytes that are not UTF-8, text that is not JSON, or the JSON     *)
(* value the text denotes (objects are functions from keys to values).     *)

NonUTF8 == <<"nonutf8">>

Malformed == <<"malformed">>

JStr(s) == <<"str", s>>

JNum(n) == <<"num", n>>

JObj(f) == <<"obj", f>>

Contents ==
    { JObj([name |-> JStr("conduit"),
            dependencies |-> JObj([angular |-> JStr("1.2.3")])]),
      JObj([dependencies |-> JObj([angular |-> JStr("^1.8.0"),
                                   jquery |-> JStr("3.0.0")])]),
      JObj([dependencies |-> JObj([angular |-> JNum(1)])]),
      JObj([name |-> JStr("conduit")]),
      JObj([dependencies |-> JObj([jquery |-> JStr("3.0.0")])]),
      JObj([dependencies |-> JStr("angular")]),
      JNum(1),
      Malformed,
      NonUTF8 }

MatchRecord(c) ==
    [ full_name       |-> "owner/repo",
      path            |-> "package.json",
      html_url        |-> "https://example/owner/repo/package.json",
      decoded_content |-> c ]

NestedRecord(c) ==
    [ full_name       |-> "gothinkster/angularjs-realworld-example-app",
      path            |-> "src/package.json",
      html_url        |-> "https://example/gothinkster/src/package.json",
      decoded_content |-> c ]

Records ==
    {MatchRecord(c) : c \in Contents}
        \cup {NestedRecord(JObj([dependencies |-> JObj([angular |-> JStr("1.5.8")])]))}

Remotes == SeqsUpTo(Records, MaxRecords)

----------------------------------------------------------------------------
(* json.loads(...)["dependencies"]["angular"], line 22.                    *)

Ok(v) == [ok |-> TRUE, val |-> v]

Exc(e) == [ok |-> FALSE, exc |-> e]

\* a loader that takes text that is not JSON for a document
loadsLenient(c) ==
    IF c = NonUTF8 THEN Exc("UnicodeDecodeError")
    ELSE Ok(c)

\* json.loads on bytes: decode as UTF-8, then parse
loads(c) ==
    IF c = NonUTF8 THEN Exc("UnicodeDecodeError")
    ELSE IF c = Malformed THEN Exc("JSONDecodeError")
    ELSE Ok(c)

\* dict.get in place of the subscript: a missing key yields None
getitemDefault(v, key) ==
    IF v[1] = "obj"
    THEN IF key \in DOMAIN v[2] THEN Ok(v[2][key]) ELSE Ok(<<"null">>)
    ELSE Exc("TypeError")

\* v[key] with a string key: dict lookup, or a type error on any other value
getitem(v, key) ==
    IF v[1] = "obj"
    THEN IF key \in DOMAIN v[2] THEN Ok(v[2][key]) ELSE Exc("KeyError")
    ELSE Exc("TypeError")

Extract(c) ==
    LET doc == loads(c)
    IN  IF ~doc.ok THEN doc
        ELSE LET deps == getitem(doc.val, "dependencies")
             IN  IF ~deps.ok THEN deps
                 ELSE getitem(deps.val, "angular")

\* the !r conversion: a string is printed with its quotes
FormatRepr(v) == ToString(v[2])

\* the f-string conversion of the extracted value
Format(v) == IF v[1] = "str" THEN v[2] ELSE ToString(v[2])

----------------------------------------------------------------------------
(* The script.                                                             *)

NoValue == <<"none">>

\* failures of a request to the service: bad credentials, rate limit, transport
RequestErrors == {"BadCredentialsException", "RateLimitExceededException",
                  "ConnectionError"}

Min(a, b) == IF a < b THEN a ELSE b

Start(q, r) ==
    /\ pc = "client"
    /\ g = "none"
    /\ query = q
    /\ encoded_query = <<>>
    /\ qualifiers = <<>>
    /\ calls = <<>>
    /\ remote = r
    /\ results = [fetched |-> 0, nextUrl |-> FALSE, pages |-> 0]
    /\ idx = 0
    /\ decoded_content = NoValue
    /\ angular_js_version = NoValue
    /\ out = <<>>
    /\ err = "none"
    /\ exitCode = -1

\* the term and the records are independent inputs: the second term is run
\* against the short answers only
Init ==
    \E q \in Queries, r \in Remotes :
        /\ q = Angular \/ Len(r) <= 1
        /\ Start(q, r)

\* a top-level handler that reports the exception and ends the run normally
RaiseHandled(e) ==
    /\ pc' = "done"
    /\ err' = e
    /\ exitCode' = 0

\* no handler anywhere: the exception ends the process with status 1
Raise(e) ==
    /\ pc' = "failed"
    /\ err' = e
    /\ exitCode' = 1

\* line 6: Github("").  The library either accepts the empty token (it is
\* then refused by the service, at the first request) or rejects it here,
\* by the assertion of its token type that the token is not empty.
Construct ==
    /\ pc = "client"
    /\ \/ /\ g' = "Github"
          /\ pc' = "query"
          /\ UNCHANGED <<err, exitCode>>
       \/ /\ Raise("AssertionError")
          /\ UNCHANGED g
    /\ UNCHANGED <<query, encoded_query, qualifiers, calls, remote, results, idx,
                   decoded_content, angular_js_version, out>>

\* lines 9-10
BuildQuery ==
    /\ pc = "query"
    /\ encoded_query' = quote(query)
    /\ pc' = "qualifiers"
    /\ UNCHANGED <<g, query, qualifiers, calls, remote, results, idx, decoded_content,
                   angular_js_version, out, err, exitCode>>

\* lines 12-15
BuildQualifiers ==
    /\ pc = "qualifiers"
    /\ qualifiers' = [filename |-> "package.json",
                      repo |-> "gothinkster/angularjs-realworld-example-app"]
    /\ pc' = "search"
    /\ UNCHANGED <<g, query, encoded_query, calls, remote, results, idx, decoded_content,
                   angular_js_version, out, err, exitCode>>

\* the raw term passed as the query
SearchArgsRaw ==
    [query |-> query, sort |-> "indexed", order |-> "asc",
     highlight |-> TRUE, qualifiers |-> qualifiers]

SearchArgs ==
    [query |-> encoded_query, sort |-> "indexed", order |-> "asc",
     highlight |-> TRUE, qualifiers |-> qualifiers]

\* a search that announces itself on standard output before the request
SearchAnnounced ==
    /\ pc = "search"
    /\ calls' = Append(calls, SearchArgs)
    /\ out' = Append(out, "Searching")
    /\ \/ /\ results' = [fetched |-> 0, nextUrl |-> TRUE, pages |-> 0]
          /\ pc' = "iter"
          /\ UNCHANGED <<err, exitCode>>
       \/ /\ \E e \in RequestErrors : Raise(e)
          /\ UNCHANGED results
    /\ UNCHANGED <<g, query, encoded_query, qualifiers, remote, idx, decoded_content,
                   angular_js_version>>

\* line 18: g.search_code(...) returns the lazy list, or the request fails
Search ==
    /\ pc = "search"
    /\ calls' = Append(calls, SearchArgs)
    /\ \/ /\ results' = [fetched |-> 0, nextUrl |-> TRUE, pages |-> 0]
          /\ pc' = "iter"
          /\ UNCHANGED <<err, exitCode>>
       \/ /\ \E e \in RequestErrors : Raise(e)
          /\ UNCHANGED results
    /\ UNCHANGED <<g, query, encoded_query, qualifiers, remote, idx, decoded_content,
                   angular_js_version, out>>

\* line 21: the next element is already fetched
Yield ==
    /\ pc = "iter"
    /\ idx < results.fetched
    /\ idx' = idx + 1
    /\ pc' = "content"
    /\ UNCHANGED <<g, query, encoded_query, qualifiers, calls, remote, results,
                   decoded_content, angular_js_version, out, err, exitCode>>

\* line 21: the fetched elements are used up and a next page exists
FetchPage ==
    /\ pc = "iter"
    /\ idx = results.fetched
    /\ results.nextUrl
    /\ \/ /\ results' = [fetched |-> Min(results.fetched + PerPage, Len(remote)),
                         nextUrl |-> results.fetched + PerPage < Len(remote),
                         pages |-> results.pages + 1]
          /\ UNCHANGED <<pc, err, exitCode>>
       \/ /\ \E e \in RequestErrors : Raise(e)
          /\ UNCHANGED results
    /\ UNCHANGED <<g, query, encoded_query, qualifiers, calls, remote, idx,
                   decoded_content, angular_js_version, out>>

\* an end of iteration that reports an empty result as a failure status
ExhaustedEmptyIsFailure ==
    /\ pc = "iter"
    /\ idx = results.fetched
    /\ ~results.nextUrl
    /\ pc' = "done"
    /\ exitCode' = (IF idx = 0 THEN 1 ELSE 0)
    /\ UNCHANGED <<g, query, encoded_query, qualifiers, calls, remote, results,
                   idx, decoded_content, angular_js_version, out, err>>

\* line 21: the iteration ends, and with it the script
Exhausted ==
    /\ pc = "iter"
    /\ idx = results.fetched
    /\ ~results.nextUrl
    /\ pc' = "done"
    /\ exitCode' = 0
    /\ UNCHANGED <<g, query, encoded_query, qualifiers, calls, remote, results,
                   idx, decoded_content, angular_js_version, out, err>>

\* line 22: result.decoded_content, which completes the record by a request
DecodedContent ==
    /\ pc = "content"
    /\ \/ /\ decoded_content' = remote[idx].decoded_content
          /\ pc' = "loads"
          /\ UNCHANGED <<err, exitCode>>
       \/ /\ \E e \in RequestErrors : Raise(e)
          /\ UNCHANGED decoded_content
    /\ UNCHANGED <<g, query, encoded_query, qualifiers, calls, remote, results,
                   idx, angular_js_version, out>>

\* the Repository line printed ahead of the extraction
LoadAfterHeader ==
    /\ pc = "loads"
    /\ out' = Append(out, "Repository: " \o remote[idx].full_name)
    /\ LET r == Extract(decoded_content)
       IN  IF r.ok
           THEN /\ angular_js_version' = r.val
                /\ pc' = "print2"
                /\ UNCHANGED <<err, exitCode>>
           ELSE /\ Raise(r.exc)
                /\ UNCHANGED angular_js_version
    /\ UNCHANGED <<g, query, encoded_query, qualifiers, calls, remote, results,
                   idx, decoded_content>>

\* line 22: json.loads(...)["dependencies"]["angular"]
Load ==
    /\ pc = "loads"
    /\ LET r == Extract(decoded_content)
       IN  IF r.ok
           THEN /\ angular_js_version' = r.val
                /\ pc' = "print1"
                /\ UNCHANGED <<err, exitCode>>
           ELSE /\ Raise(r.exc)
                /\ UNCHANGED angular_js_version
    /\ UNCHANGED <<g, query, encoded_query, qualifiers, calls, remote, results,
                   idx, decoded_content, out>>

print(line, next) ==
    /\ out' = Append(out, line)
    /\ pc' = next
    /\ UNCHANGED <<g, query, encoded_query, qualifiers, calls, remote, results,
                   idx, decoded_content, angular_js_version, err, exitCode>>

\* line 24
PrintRepository ==
    /\ pc = "print1"
    /\ print("Repository: " \o remote[idx].full_name, "print2")

\* line 25
PrintPath ==
    /\ pc = "print2"
    /\ print("File path: " \o remote[idx].path, "print3")

\* line 26
PrintUrl ==
    /\ pc = "print3"
    /\ print("URL: " \o remote[idx].html_url, "print4")

\* line 27
PrintVersion ==
    /\ pc = "print4"
    /\ print("Angular JS: " \o Format(angular_js_version), "iter")

Next ==
    \/ Construct
    \/ BuildQuery
    \/ BuildQualifiers
    \/ Search
    \/ Yield
    \/ FetchPage
    \/ Exhausted
    \/ DecodedContent
    \/ Load
    \/ PrintRepository
    \/ PrintPath
    \/ PrintUrl
    \/ PrintVersion

Spec == Init /\ [][Next]_vars

\* the interpreter runs the script until it ends
FairSpec == Spec /\ WF_vars(Next)

\* the query builder alone, over every bounded term
InitQuote == \E q \in BoundedTerms : Start(q, <<>>)

NextQuote == Construct \/ BuildQuery

SpecQuote == InitQuote /\ [][NextQuote]_vars

----------------------------------------------------------------------------
(* urllib.parse.unquote, the decoder the round trip is stated with:        *)
(* %XX becomes a byte, the bytes are read as UTF-8 (errors='replace'),     *)
(* anything else stands for itself.                                        *)

IsHex(c) == c \in (48..57) \cup (65..70) \cup (97..102)

HexVal(c) == IF c <= 57 THEN c - 48 ELSE IF c <= 70 THEN c - 55 ELSE c - 87

\* bytes of the ASCII runs; a non-ASCII character is kept, negated, as itself
RECURSIVE Unescape(_)
Unescape(s) ==
    IF s = <<>> THEN <<>>
    ELSE IF s[1] = 37 /\ Len(s) >= 3 /\ IsHex(s[2]) /\ IsHex(s[3])
         THEN <<16 * HexVal(s[2]) + HexVal(s[3])>> \o Unescape(SubSeq(s, 4, Len(s)))
    ELSE IF s[1] < 128 THEN <<s[1]>> \o Unescape(Tail(s))
    ELSE <<0 - s[1]>> \o Unescape(Tail(s))

IsCont(bs, i) == Len(bs) >= i /\ bs[i] \in 128..191

Drop(bs, n) == SubSeq(bs, n + 1, Len(bs))

RECURSIVE DecodeUTF8(_)
DecodeUTF8(bs) ==
    IF bs = <<>> THEN <<>>
    ELSE LET b == bs[1]
         IN  IF b < 0 THEN <<0 - b>> \o DecodeUTF8(Tail(bs))
             ELSE IF b < 128 THEN <<b>> \o DecodeUTF8(Tail(bs))
             ELSE IF b \in 194..223 /\ IsCont(bs, 2)
                  THEN <<(b - 192) * 64 + (bs[2] - 128)>> \o DecodeUTF8(Drop(bs, 2))
             ELSE IF b \in 224..239 /\ IsCont(bs, 2) /\ IsCont(bs, 3)
                  THEN <<(b - 224) * 4096 + (bs[2] - 128) * 64 + (bs[3] - 128)>>
                           \o DecodeUTF8(Drop(bs, 3))
             ELSE IF b \in 240..244 /\ IsCont(bs, 2) /\ IsCont(bs, 3) /\ IsCont(bs, 4)
                  THEN <<(b - 240) * 262144 + (bs[2] - 128) * 4096
                             + (bs[3] - 128) * 64 + (bs[4] - 128)>>
                           \o DecodeUTF8(Drop(bs, 4))
             ELSE <<65533>> \o DecodeUTF8(Tail(bs))

unquote(s) == DecodeUTF8(Unescape(s))

\* RFC 3986 reserved characters: gen-delims :/?#[]@ and sub-delims !$&'()*+,;=
Reserved == {58, 47, 63, 35, 91, 93, 64, 33, 36, 38, 39, 40, 41, 42, 43, 44, 59, 61}

Alnum == Letters \cup Digits

\* RFC 3986 unreserved characters: the characters that never need escaping
Unreserved == Alnum \cup {45, 46, 95, 126}

Range(s) == {s[i] : i \in 1..Len(s)}

\* the escape of one character: %XX for each byte of its UTF-8 form
RECURSIVE PctBytes(_)
PctBytes(bs) ==
    IF bs = <<>> THEN <<>>
    ELSE <<37, Hex(Head(bs) \div 16), Hex(Head(bs) % 16)>> \o PctBytes(Tail(bs))

Pct(c) == PctBytes(EncodeChar(c))

StartsWith(s, p) == Len(s) >= Len(p) /\ SubSeq(s, 1, Len(p)) = p

\* enc is term with every character of escaped replaced by its escape, every
\* character of kept left as it is, and any other character either way
RECURSIVE Encodes(_, _, _, _)
Encodes(term, enc, escaped, kept) ==
    IF term = <<>> THEN enc = <<>>
    ELSE LET c == Head(term)
             asIs == /\ StartsWith(enc, <<c>>)
                     /\ Encodes(Tail(term), Tail(enc), escaped, kept)
             asPct == /\ StartsWith(enc, Pct(c))
                      /\ Encodes(Tail(term), Drop(enc, Len(Pct(c))), escaped, kept)
         IN  IF c \in escaped THEN asPct
             ELSE IF c \in kept THEN asIs
             ELSE asIs \/ asPct

QueryBuilt == pc = "qualifiers"

\* C6 as stated: quote escapes every reserved character of the term and
\* leaves every alphanumeric character unchanged.
C6_EscapesEveryReserved ==
    QueryBuilt => Encodes(query, encoded_query, Reserved, Alnum)

\* C6, amended: quote escapes every reserved character of the term other
\* than '/', leaves '/' unchanged (it is the default safe character), and
\* leaves every alphanumeric character unchanged.
C6_EscapesReservedButSlash ==
    QueryBuilt => Encodes(query, encoded_query, Reserved \ {47}, Alnum \cup {47})

C6_Witness ==
    /\ QueryBuilt
    /\ {63, 47, 97} \subseteq Range(query)

\* C7: unquote(quote(x)) = x for every term x, and quote returns an empty
\* term, or a term made of unreserved characters and '/', unchanged.
C7_RoundTrip ==
    QueryBuilt =>
        /\ unquote(encoded_query) = query
        /\ (Range(query) \subseteq Unreserved \cup {47} => encoded_query = query)

C7_Witness ==
    /\ QueryBuilt
    /\ {37, 8364} \subseteq Range(query)
    /\ encoded_query # query
    /\ unquote(encoded_query) = query

----------------------------------------------------------------------------
(* The report a run is expected to write, stated on the records alone.     *)

IsObject(v) == v[1] = "obj"

ValidJSON(c) == c # NoValue /\ c # Malformed /\ c # NonUTF8

\* c is a JSON object whose dependencies object has the key angular
HasAngular(c) ==
    /\ ValidJSON(c)
    /\ IsObject(c)
    /\ "dependencies" \in DOMAIN c[2]
    /\ IsObject(c[2].dependencies)
    /\ "angular" \in DOMAIN c[2].dependencies[2]

HasAngularString(c) == HasAngular(c) /\ c[2].dependencies[2].angular[1] = "str"

\* c is a JSON object in which the dependencies key, or the angular key of
\* its dependencies object, is missing
MissingKey(c) ==
    /\ ValidJSON(c)
    /\ IsObject(c)
    /\ \/ "dependencies" \notin DOMAIN c[2]
       \/ /\ IsObject(c[2].dependencies)
          /\ "angular" \notin DOMAIN c[2].dependencies[2]

VersionText(c) ==
    LET v == c[2].dependencies[2].angular
    IN  IF v[1] = "str" THEN v[2] ELSE ToString(v[2])

\* line n of the four-line block of record r
LineOf(r, n) ==
    CASE n = 1 -> "Repository: " \o r.full_name
      [] n = 2 -> "File path: " \o r.path
      [] n = 3 -> "URL: " \o r.html_url
      [] OTHER -> "Angular JS: " \o VersionText(r.decoded_content)

Block(r) == [n \in 1..4 |-> LineOf(r, n)]

RECURSIVE Blocks(_)
Blocks(rs) == IF rs = <<>> THEN <<>> ELSE Block(Head(rs)) \o Blocks(Tail(rs))

Terminated == pc \in {"done", "failed"}

ParseErrors == {"JSONDecodeError", "UnicodeDecodeError"}

AllAngularStrings == \A i \in 1..Len(remote) : HasAngularString(remote[i].decoded_content)

\* C1: when every record's content is valid JSON with a dependencies.angular
\* string and the search has yielded them all, standard output is exactly
\* the four-line blocks of the records, in yield order, and nothing else;
\* no such record raises a parse or lookup error.
C1_OutputIsBlocks ==
    AllAngularStrings =>
        /\ pc = "done" => out = Blocks(remote)
        /\ err \notin ParseErrors \cup {"KeyError", "TypeError"}

C1_Witness ==
    /\ AllAngularStrings
    /\ pc = "done"
    /\ Len(remote) = 2
    /\ remote[1].full_name # remote[2].full_name
    /\ Len(out) = 8

\* the search has answered with an empty result
YieldedNothing == Len(remote) = 0 /\ results.pages >= 1

\* C2: when the search yields zero match records the program prints
\* nothing and terminates normally with exit code 0.
C2_ZeroMatches ==
    /\ [](YieldedNothing => out = <<>> /\ err = "none")
    /\ (YieldedNothing ~> (pc = "done" /\ exitCode = 0 /\ out = <<>>))

C2_Witness == YieldedNothing /\ pc = "done"

\* C3: when a record's content is not valid JSON the program terminates
\* with an unhandled parse error, and no line is printed for that record or
\* for any record after it.
C3_InvalidJSONAborts ==
    (decoded_content = Malformed \/ decoded_content = NonUTF8) =>
        /\ pc \in {"loads", "failed"}
        /\ Len(out) = 4 * (idx - 1)
        /\ pc = "failed" => err \in ParseErrors /\ exitCode = 1 /\ ~ENABLED Next

C3_Witness ==
    /\ decoded_content = Malformed
    /\ pc = "failed"
    /\ idx = 2
    /\ Len(remote) = 3

\* C4 as stated: valid JSON without dependencies.angular ends the program
\* with a key-lookup error and none of the record's four lines printed.
C4_KeyError ==
    (ValidJSON(decoded_content) /\ ~HasAngular(decoded_content) /\ pc = "failed") =>
        err = "KeyError" /\ Len(out) = 4 * (idx - 1)

\* C4, amended: when the content is a JSON object that lacks the
\* dependencies key, or whose dependencies object lacks the angular key,
\* the program ends with a KeyError; when the value looked into is valid
\* JSON but not an object, it ends with a TypeError; in both cases none of
\* the record's four lines is printed.
C4_LookupError ==
    (ValidJSON(decoded_content) /\ ~HasAngular(decoded_content)) =>
        /\ pc \in {"loads", "failed"}
        /\ Len(out) = 4 * (idx - 1)
        /\ pc = "failed" =>
              /\ err = (IF MissingKey(decoded_content) THEN "KeyError" ELSE "TypeError")
              /\ exitCode = 1
              /\ ~ENABLED Next

C4_Witness ==
    /\ MissingKey(decoded_content)
    /\ "dependencies" \in DOMAIN decoded_content[2]
    /\ pc = "failed"
    /\ err = "KeyError"
    /\ idx = 2

\* C5: when the search raises an authentication error, from the search
\* call or from the first page fetch, the program terminates at once and
\* has printed nothing.
C5_AuthError ==
    (err = "BadCredentialsException" /\ results.pages = 0) =>
        /\ pc = "failed"
        /\ exitCode = 1
        /\ out = <<>>
        /\ idx = 0
        /\ ~ENABLED Next

C5_Witness ==
    /\ err = "BadCredentialsException"
    /\ results.pages = 0
    /\ results.nextUrl
    /\ Len(remote) >= 1
    /\ pc = "failed"

\* C8: the exit code is 0 exactly when the run completes normally and
\* non-zero whenever a step raises; a raised failure is never caught: it
\* ends the run, and nothing runs after it.
C8_ExitCode ==
    /\ exitCode = 0 <=> pc = "done"
    /\ err # "none" <=> pc = "failed"
    /\ pc = "failed" => exitCode = 1
    /\ ~Terminated => exitCode = -1
    /\ Terminated => ~ENABLED Next

C8_Witness ==
    /\ pc = "failed"
    /\ err = "KeyError"
    /\ exitCode = 1
    /\ Len(out) = 4

SearchReached ==
    \/ pc \in {"iter", "content", "loads", "print1", "print2", "print3", "print4", "done"}
    \/ pc = "failed" /\ g = "Github"

ExpectedCall ==
    [query |-> quote(query), sort |-> "indexed", order |-> "asc", highlight |-> TRUE,
     qualifiers |-> [filename |-> "package.json",
                     repo |-> "gothinkster/angularjs-realworld-example-app"]]

ExtractErrors == ParseErrors \cup {"KeyError", "TypeError"}

\* C10: records are processed one at a time in yield order, and a failure
\* on record k ends the processing: the output is at every moment the
\* complete blocks of the records before the current one followed by the
\* lines printed so far of the current one, and after a parse or lookup
\* failure on record k it is exactly the complete blocks of the records
\* before k.
C10_Sequential ==
    /\ idx <= Len(remote)
    /\ Len(out) <= 4 * idx
    /\ idx >= 1 => Len(out) >= 4 * (idx - 1)
    /\ \A i \in 1..Len(out) : out[i] = LineOf(remote[((i - 1) \div 4) + 1], ((i - 1) % 4) + 1)
    /\ (pc = "failed" /\ err \in ExtractErrors) =>
          /\ idx >= 1
          /\ out = Blocks(SubSeq(remote, 1, idx - 1))
          /\ ~ENABLED Next

C10_Witness ==
    /\ pc = "failed"
    /\ err \in ExtractErrors
    /\ idx = 3
    /\ Len(out) = 8

====
